---------------------------- MODULE Spec2Model ----------------------------
(***************************************************************************)
(* toast.py: send_toast_notification(host, username, password, sender,     *)
(* message) opens a WinRM session, renders a PowerShell script from an     *)
(* f-string, submits it with session.run_ps and turns the outcome into a   *)
(* printed line and a boolean.                                             *)
(*                                                                         *)
(* The WinRM library and the remote Windows host are the environment:      *)
(* winrm.Session(...) returns a session or raises, run_ps returns a        *)
(* result (status_code, std_err) or raises, and the host executes the      *)
(* rendered script statement by statement.  print is taken to succeed.     *)
(***************************************************************************)
EXTENDS Integers, Sequences, FiniteSets, TLC

(* ------------------------------ bounds -------------------------------- *)

\* Number of calls of send_toast_notification in one behaviour.
NCalls == 2

Calls == 1 .. NCalls

(* --------------------------- program constants ------------------------ *)

\* toast.py:8, the WinRM HTTP port of the session URL.
Port == "5985"
\* toast.py:4, the default values of the parameters sender and message.
DefaultSender == "Linux Host"
DefaultMessage == "Hello from Linux!"
\* toast.py:12, the source line of the first line of the f-string's body.
FirstLine == 12

(* ------------------------------ inputs -------------------------------- *)

\* A parameter the caller leaves out (its default applies).
Omitted == "<omitted>"
\* The host of toast.py:71 and the invalid address 0.0.0.0, which no
\* connection reaches.
Reachable == {"192.168.212.3"}
Hosts == Reachable \cup {"0.0.0.0"}
Usernames == {"grant"}
Passwords == {"secret"}
SenderArgs == {"Claude", Omitted}
MessageArgs == {"Done"}
\* Texts for the rendering specification: plain text and text that carries
\* the characters PowerShell and XML give a meaning to.
RenderTexts ==
    {"Claude", "Done", "Linux Host", "Hello from Linux!", "", "a\"b",
     "$Message", "<b>", "x&y", "O'Neil", "{sender}", "{{", "C:\\\\tmp"}

\* What the host can write to std_err: nothing, UTF-8 "e acute" (C3 A9),
\* and Latin-1 "e acute" (E9), which is no UTF-8.
StdErrs == {<<>>, <<195, 169>>, <<233>>}

VARIABLES
    pc,         \* pc[c]: where call c stands: "idle", "L57", "done", "raised"
    args,       \* args[c]: the parameters of call c
    session,    \* session[c]: <<>> or <<the Session object>>            (line 8)
    ps_script,  \* ps_script[c]: <<>> or <<the rendered script>>         (line 11)
    result,     \* result[c]: <<>> or <<what run_ps returned>>           (line 58)
    exc,        \* exc[c]: <<>> or <<the exception raised in call c>>
    ret,        \* ret[c]: <<>> or <<the returned boolean>>
    out,        \* out[c]: the lines call c printed
    count,      \* count[c]: sessions built, scripts rendered, run_ps calls made
    regAtCall,  \* regAtCall[c]: <<>> or <<the host's registry when call c began>>
    reg,        \* the reachable host's registry: keys and (key, name, value)
    toasts      \* the notifications the reachable host has shown, in order

vars == <<pc, args, session, ps_script, result, exc, ret, out, count,
          regAtCall, reg, toasts>>

(* ----------------------- the f-string (lines 11-55) ------------------- *)

RECURSIVE Join(_)
Join(s) == IF s = <<>> THEN "" ELSE Head(s) \o Join(Tail(s))

\* The body of the f-string, one entry per source line 12..54, each line cut
\* into tokens as Python's f-string scanner reads them: "{{" and "}}" are
\* brace escapes, "\\\\" (two backslash characters in the source) is the
\* escape of one backslash, "{sender}" and "{message}" are the replacement
\* fields, anything else is literal text.
Template ==
    << <<"    $Sender = \"", "{sender}", "\"">>,
       <<"    $Message = \"", "{message}", "\"">>,
       <<"    ">>,
       <<"    Function New-ToastNotification ", "{{">>,
       <<"        Param($Sender,$Message)">>,
       <<"        ">>,
       <<"        $AudioSource = \"", "ms-winsoundevent:Notification.Default", "\"">>,
       <<"        ">>,
       <<"        $null = [Windows.UI.Notifications.ToastNotificationManager, Windows.UI.Notifications, ContentType = WindowsRuntime]">>,
       <<"        $null = [Windows.Data.Xml.Dom.XmlDocument, Windows.Data.Xml.Dom.XmlDocument, ContentType = WindowsRuntime]">>,
       <<"        ">>,
       <<"        $app =  '", "{{", "1AC14E77-02E7-4E5D-B744-2EB1AE5198B7", "}}",
         "\\\\", "WindowsPowerShell", "\\\\", "v1.0", "\\\\", "powershell.exe", "'">>,
       <<"        $AppID = \"", "{{", "1AC14E77-02E7-4E5D-B744-2EB1AE5198B7", "}}",
         "\\\\", "\\\\", "WindowsPowerShell", "\\\\", "\\\\", "v1.0",
         "\\\\", "\\\\", "powershell.exe", "\"">>,
       <<"        $RegPath = '", "HKCU:", "\\\\", "SOFTWARE", "\\\\", "Microsoft",
         "\\\\", "Windows", "\\\\", "CurrentVersion", "\\\\", "Notifications",
         "\\\\", "Settings", "'">>,
       <<"        ">>,
       <<"        if (!(Test-Path -Path \"", "$RegPath", "\\\\", "$AppId", "\")) ", "{{">>,
       <<"            $null = New-Item -Path \"", "$RegPath", "\\\\", "$AppId", "\" -Force">>,
       <<"            $null = New-ItemProperty -Path \"", "$RegPath", "\\\\", "$AppId",
         "\" -Name '", "ShowInActionCenter", "' -Value 1 -PropertyType 'DWORD'">>,
       <<"        ", "}}">>,
       <<"        ">>,
       <<"        [xml]$ToastTemplate = @\"">>,
       <<"<toast duration=\"long\">">>,
       <<"    <visual>">>,
       <<"    <binding template=\"ToastGeneric\">">>,
       <<"        <text>", "$Sender", "</text>">>,
       <<"        <group>">>,
       <<"            <subgroup>">>,
       <<"                <text hint-style=\"title\" hint-wrap=\"true\" >", "$Message", "</text>">>,
       <<"            </subgroup>">>,
       <<"        </group>">>,
       <<"    </binding>">>,
       <<"    </visual>">>,
       <<"    <audio src=\"", "$AudioSource", "\"/>">>,
       <<"</toast>">>,
       <<"\"@">>,
       <<"        ">>,
       <<"        $ToastXml = New-Object -TypeName Windows.Data.Xml.Dom.XmlDocument">>,
       <<"        $ToastXml.LoadXml($ToastTemplate.OuterXml)">>,
       <<"        ">>,
       <<"        [Windows.UI.Notifications.ToastNotificationManager]::CreateToastNotifier(",
         "$app", ").Show($ToastXml)">>,
       <<"    ", "}}">>,
       <<"    ">>,
       <<"    New-ToastNotification -Sender $Sender -Message $Message">> >>

\* FToken with the field of line 13 naming the sender, as line 12 does.
FTokenSenderTwice(tok, sender, message) ==
    CASE tok = "{{" -> "{"
      [] tok = "}}" -> "}"
      [] tok = "\\\\" -> "\\"
      [] tok = "{sender}" -> sender
      [] tok = "{message}" -> sender
      [] OTHER -> tok

\* What Python makes of one token of the f-string.
FToken(tok, sender, message) ==
    CASE tok = "{{" -> "{"
      [] tok = "}}" -> "}"
      [] tok = "\\\\" -> "\\"
      [] tok = "{sender}" -> sender
      [] tok = "{message}" -> message
      [] OTHER -> tok

\* Render with the script kept at module level and used again by the calls
\* that follow: the first script rendered serves them all.
RenderShared(sender, message) ==
    IF \E d \in Calls : ps_script[d] # <<>>
    THEN ps_script[CHOOSE d \in Calls : ps_script[d] # <<>>][1]
    ELSE [i \in 1 .. Len(Template) |->
            [j \in 1 .. Len(Template[i]) |-> FToken(Template[i][j], sender, message)]]

\* The rendered script: every line of the template, token by token.
Render(sender, message) ==
    [i \in 1 .. Len(Template) |->
        [j \in 1 .. Len(Template[i]) |-> FToken(Template[i][j], sender, message)]]

\* Line n (a source line number) of a rendered script, and its text.
Line(script, n) == script[n - FirstLine + 1]
Text(script, n) == Join(Line(script, n))

(* --------------- the script on the remote host (lines 12-54) ---------- *)

\* The text between the quotes of an assignment line: its tokens but the
\* first (up to the opening quote) and the last (the closing quote).
Literal(line) == Join(SubSeq(line, 2, Len(line) - 1))

\* The PowerShell variables the script sets (lines 12, 13, 18, 23, 24, 25),
\* by the reference that reads them.  PowerShell names are case-insensitive:
\* $AppId on lines 27-29 reads the $AppID of line 24.
PSVars(script) ==
    [ref \in {"$Sender", "$Message", "$AudioSource", "$app", "$AppId", "$RegPath"} |->
        CASE ref = "$Sender" -> Literal(Line(script, 12))
          [] ref = "$Message" -> Literal(Line(script, 13))
          [] ref = "$AudioSource" -> Literal(Line(script, 18))
          [] ref = "$app" -> Literal(Line(script, 23))
          [] ref = "$AppId" -> Literal(Line(script, 24))
          [] ref = "$RegPath" -> Literal(Line(script, 25))]

\* An expandable string: every variable reference gives way to its value.
PSExpand(line, env) ==
    Join([j \in 1 .. Len(line) |->
            IF line[j] \in DOMAIN env THEN env[line[j]] ELSE line[j]])

\* Line 27: the registry path Test-Path, New-Item and New-ItemProperty name.
RegKey(script) == PSExpand(SubSeq(Line(script, 27), 2, 4), PSVars(script))

\* Line 29: the name of the property New-ItemProperty sets.
RegFlag(script) == Line(script, 29)[6]

\* PSRegistry without the Test-Path of line 27: New-Item -Force makes the key
\* anew, whatever it held, and the flag is set to 1.
PSRegistryForce(script, r) ==
    [keys |-> r.keys \cup {RegKey(script)},
     vals |-> {v \in r.vals : v[1] # RegKey(script)}
                 \cup {<<RegKey(script), RegFlag(script), 1>>}]

\* Lines 27-30 on registry r: an absent key is created and its flag set to 1,
\* a present key is left as it is.
PSRegistry(script, r) ==
    IF RegKey(script) \notin r.keys
    THEN [keys |-> r.keys \cup {RegKey(script)},
          vals |-> r.vals \cup {<<RegKey(script), RegFlag(script), 1>>}]
    ELSE r

\* Lines 32-46: the here-string, expanded, as the lines of the XML document.
ToastXml(script) ==
    [k \in 1 .. 13 |-> PSExpand(Line(script, 32 + k), PSVars(script))]

\* Line 51: the notification, bound to the application identifier $app.
PSToast(script, c) ==
    [app |-> PSExpand(<<Line(script, 51)[2]>>, PSVars(script)),
     xml |-> ToastXml(script),
     by |-> c]

\* PSRun with lines 32-51 inside the if block of lines 27-30: the
\* notification is shown only by the run that creates the key.
PSRunShowOnCreate(script, r, c) ==
    [reg |-> PSRegistry(script, r),
     shown |-> IF RegKey(script) \notin r.keys THEN <<PSToast(script, c)>> ELSE <<>>]

\* Lines 15-54, run for call c on registry r with no statement failing: the
\* if block of lines 27-30, then lines 32-51, whichever way the if went.
PSRun(script, r, c) ==
    [reg |-> PSRegistry(script, r), shown |-> <<PSToast(script, c)>>]

(* --------------------- bytes.decode() (line 63) ----------------------- *)

\* UTF-8, strict: a byte below 0x80 is itself, a lead byte 0xC2..0xDF takes
\* one continuation byte 0x80..0xBF.  Of the longer sequences, whose lead
\* bytes are 0xE0 and above, StdErrs holds only the lead byte 0xE9 with
\* nothing after it, which raises UnicodeDecodeError like any other byte.
RECURSIVE CanDecode(_)
CanDecode(b) ==
    IF b = <<>> THEN TRUE
    ELSE IF b[1] < 128 THEN CanDecode(Tail(b))
    ELSE IF b[1] \in 194 .. 223 /\ Len(b) >= 2 /\ b[2] \in 128 .. 191
         THEN CanDecode(Tail(Tail(b)))
    ELSE FALSE

RECURSIVE Decode(_)
Decode(b) ==
    IF b = <<>> THEN <<>>
    ELSE IF b[1] < 128 THEN <<b[1]>> \o Decode(Tail(b))
    ELSE <<(b[1] - 192) * 64 + (b[2] - 128)>> \o Decode(Tail(Tail(b)))

(* ------------------- send_toast_notification (lines 4-67) ------------- *)

NoArgs == [host |-> "", username |-> "", password |-> "", sender |-> "", message |-> ""]
NoCount == [session |-> 0, script |-> 0, run_ps |-> 0]

\* Line 4: a parameter left out takes its default.
Bind(arg, default) == IF arg = Omitted THEN default ELSE arg

\* Line 4: the parameters of a call.
Bound(h, u, p, s, m) ==
    [host |-> h, username |-> u, password |-> p,
     sender |-> Bind(s, DefaultSender), message |-> Bind(m, DefaultMessage)]

\* Line 8: the Session object.
Session(host, username, password) ==
    [url |-> "http://" \o host \o ":" \o Port \o "/wsman",
     auth |-> <<username, password>>]

\* Lines 60, 63, 66: the printed lines, as format, string argument and
\* decoded-text argument.
SentLine(host) ==
    [fmt |-> "Toast notification sent successfully to {host}", s |-> host, t |-> <<>>]
ErrorLine(text) ==
    [fmt |-> "Error: {result.std_err.decode()}", s |-> "", t |-> text]
FailedLine(e) ==
    [fmt |-> "Failed to send notification: {e}", s |-> e.msg, t |-> <<>>]

\* Succeeded with output on std_err taken for a failure.
SucceededQuiet(res) == res.status_code = 0 /\ res.std_err = <<>>

\* Line 59: the test of the status code.
Succeeded(res) == res.status_code = 0

\* What the environment can raise.  winrm.Session raises on credentials it
\* cannot use (an empty username); run_ps raises on a host it cannot reach
\* and on credentials the host rejects; decode raises on bytes that are no
\* UTF-8.
SessionFault == [type |-> "InvalidCredentialsError", msg |-> "auth method basic requires a username"]
ConnectFault == [type |-> "ConnectionError", msg |-> "Connection refused"]
AuthFault == [type |-> "InvalidCredentialsError", msg |-> "the specified credentials were rejected by the server"]
DecodeFault == [type |-> "UnicodeDecodeError", msg |-> "'utf-8' codec can't decode byte"]

\* The registries a host can start with: the key of lines 27-29 absent, or
\* present with its flag off or on.
Registries ==
    LET key == RegKey(Render(DefaultSender, DefaultMessage)) IN
    {[keys |-> {}, vals |-> {}]}
        \cup {[keys |-> {key}, vals |-> {<<key, "ShowInActionCenter", v>>}] : v \in {0, 1}}

Init ==
    /\ pc = [c \in Calls |-> "idle"]
    /\ args = [c \in Calls |-> NoArgs]
    /\ session = [c \in Calls |-> <<>>]
    /\ ps_script = [c \in Calls |-> <<>>]
    /\ result = [c \in Calls |-> <<>>]
    /\ exc = [c \in Calls |-> <<>>]
    /\ ret = [c \in Calls |-> <<>>]
    /\ out = [c \in Calls |-> <<>>]
    /\ count = [c \in Calls |-> NoCount]
    /\ regAtCall = [c \in Calls |-> <<>>]
    /\ reg \in Registries
    /\ toasts = <<>>

\* Calls begin in the order of their numbers.
CanCall(c) ==
    /\ pc[c] = "idle"
    /\ \A d \in Calls : d < c => pc[d] # "idle"

\* Lines 4-55: call c begins with a sender and a message of the given sets,
\* winrm.Session(...) returns the session and the f-string is evaluated; the
\* call stands at the try of line 57.
EnterWith(c, senders, messages) ==
    /\ CanCall(c)
    /\ \E h \in Hosts, u \in Usernames, p \in Passwords,
          s \in senders, m \in messages :
          LET a == Bound(h, u, p, s, m) IN
          /\ args' = [args EXCEPT ![c] = a]
          /\ session' = [session EXCEPT ![c] = <<Session(a.host, a.username, a.password)>>]
          /\ ps_script' = [ps_script EXCEPT ![c] = <<Render(a.sender, a.message)>>]
    /\ count' = [count EXCEPT ![c].session = @ + 1, ![c].script = @ + 1]
    /\ regAtCall' = [regAtCall EXCEPT ![c] = <<reg>>]
    /\ pc' = [pc EXCEPT ![c] = "L57"]
    /\ UNCHANGED <<result, exc, ret, out, reg, toasts>>

Enter(c) == EnterWith(c, SenderArgs, MessageArgs)

\* Lines 4-8: call c begins and winrm.Session(...) raises.  Line 8 stands
\* outside the try of line 57: the exception leaves the function, which
\* neither prints nor returns, and line 11 is not reached.
EnterRaises(c) ==
    /\ CanCall(c)
    /\ \E h \in Hosts, u \in Usernames, p \in Passwords,
          s \in SenderArgs, m \in MessageArgs :
          args' = [args EXCEPT ![c] = Bound(h, u, p, s, m)]
    /\ exc' = [exc EXCEPT ![c] = <<SessionFault>>]
    /\ regAtCall' = [regAtCall EXCEPT ![c] = <<reg>>]
    /\ pc' = [pc EXCEPT ![c] = "raised"]
    /\ UNCHANGED <<session, ps_script, result, ret, out, count, reg, toasts>>

\* A return statement (lines 61, 64, 67) after its print (lines 60, 63, 66).
Return(c, line, b) ==
    /\ out' = [out EXCEPT ![c] = Append(@, line)]
    /\ ret' = [ret EXCEPT ![c] = <<b>>]
    /\ pc' = [pc EXCEPT ![c] = "done"]

\* Lines 65-67: the handler prints the exception e and returns False.
Handler(c, e) ==
    /\ exc' = [exc EXCEPT ![c] = <<e>>]
    /\ Return(c, FailedLine(e), FALSE)

\* Submitted with a second attempt: run_ps is called again after the first.
SubmittedAgain(c) == [count EXCEPT ![c].run_ps = @ + 2]

\* Line 58: one more call of run_ps by call c.
Submitted(c) == [count EXCEPT ![c].run_ps = @ + 1]

\* Lines 58-64, run_ps having returned res: status 0 gives the success line
\* and True; another status gives the error line and False, unless decode()
\* raises, which happens before print is called and leads to the handler.
Returned(c, res) ==
    /\ result' = [result EXCEPT ![c] = <<res>>]
    /\ count' = Submitted(c)
    /\ IF Succeeded(res)
       THEN Return(c, SentLine(args[c].host), TRUE) /\ UNCHANGED exc
       ELSE IF CanDecode(res.std_err)
            THEN Return(c, ErrorLine(Decode(res.std_err)), FALSE) /\ UNCHANGED exc
            ELSE Handler(c, DecodeFault)

\* Lines 57-61: run_ps reaches the host, which runs the script to its end
\* and answers status 0.
RunPs(c) ==
    /\ pc[c] = "L57"
    /\ args[c].host \in Reachable
    /\ LET run == PSRun(ps_script[c][1], reg, c) IN
          /\ reg' = run.reg
          /\ toasts' = toasts \o run.shown
    /\ \E e \in StdErrs : Returned(c, [status_code |-> 0, std_err |-> e])
    /\ UNCHANGED <<args, session, ps_script, regAtCall>>

\* Lines 57-67: the notification API fails on the host at line 51, after
\* lines 27-30 ran: nothing is shown and the status is not 0.
RunPsRemoteError(c) ==
    /\ pc[c] = "L57"
    /\ args[c].host \in Reachable
    /\ reg' = PSRegistry(ps_script[c][1], reg)
    /\ \E e \in StdErrs : Returned(c, [status_code |-> 1, std_err |-> e])
    /\ UNCHANGED <<args, session, ps_script, regAtCall, toasts>>

\* Lines 57-58, 65-67: run_ps raises, the host is not reached or it rejects
\* the credentials.
RunPsRaises(c) ==
    /\ pc[c] = "L57"
    /\ count' = Submitted(c)
    /\ Handler(c, IF args[c].host \in Reachable THEN AuthFault ELSE ConnectFault)
    /\ UNCHANGED <<args, session, ps_script, result, regAtCall, reg, toasts>>

Ended(c) == pc[c] \in {"done", "raised"}

\* One caller, one call after the other (lines 69-76, repeated).
Quiet == \A d \in Calls : pc[d] = "idle" \/ Ended(d)

Try(c) == RunPs(c) \/ RunPsRemoteError(c) \/ RunPsRaises(c)

Next ==
    \E c \in Calls :
        \/ Quiet /\ Enter(c)
        \/ Quiet /\ EnterRaises(c)
        \/ Try(c)

Spec == Init /\ [][Next]_vars

\* Callers on several threads: a call begins while others stand at line 57.
ConcNext == \E c \in Calls : Enter(c) \/ EnterRaises(c) \/ Try(c)

ConcSpec == Init /\ [][ConcNext]_vars

\* The f-string alone: one call, rendered for every pair of RenderTexts and
\* for the defaults.
RenderNext == EnterWith(1, RenderTexts \cup {Omitted}, RenderTexts \cup {Omitted})

RenderSpec == Init /\ [][RenderNext]_vars

(* ------------------------------ properties --------------------------- *)

Booleans == {<<TRUE>>, <<FALSE>>}

\* run_ps returned to call c, and with status 0.
GotResult(c) == result[c] # <<>>
GotZero(c) == GotResult(c) /\ result[c][1].status_code = 0

\* Call c rendered its script; the script.
Rendered(c) == ps_script[c] # <<>>
Script(c) == ps_script[c][1]

\* The notifications of call c among those the host has shown.
ToastsOf(c) == {i \in 1 .. Len(toasts) : toasts[i].by = c}

\* C1: every call, whatever fault arises in it (building the session,
\* submitting the script, reading the status, decoding std_err), ends by
\* returning a boolean, and no exception leaves the function.
C1_NoExceptionPropagates ==
    \A c \in Calls :
        /\ pc[c] # "raised"
        /\ Ended(c) => ret[c] \in Booleans

\* C2: a call returns True exactly when run_ps returned a result with status
\* 0; every other call that returns (another status, or a fault raised by the
\* submission) returns False.
C2_TrueIffStatusZero ==
    \A c \in Calls :
        /\ ret[c] # <<>> <=> pc[c] = "done"
        /\ pc[c] = "done" =>
              /\ ret[c] \in Booleans
              /\ ret[c] = <<TRUE>> <=> GotZero(c)

\* C2, its cases: one call returned True on status 0 though the host wrote
\* to std_err, another returned False on status 1 or after a fault of the
\* submission.
C2_Witness ==
    /\ \E c \in Calls : ret[c] = <<TRUE>> /\ GotZero(c) /\ result[c][1].std_err # <<>>
    /\ \E c \in Calls :
          /\ ret[c] = <<FALSE>>
          /\ \/ GotResult(c) /\ result[c][1].status_code = 1
             \/ ~GotResult(c) /\ exc[c] # <<>>

\* C3: whenever run_ps returns a status other than 0, the call prints an
\* error line that holds the decoded text of that result's std_err, and
\* returns False.
C3_NonZeroPrintsStdErr ==
    \A c \in Calls :
        (pc[c] = "done" /\ GotResult(c) /\ ~GotZero(c)) =>
            /\ ret[c] = <<FALSE>>
            /\ CanDecode(result[c][1].std_err)
            /\ \E i \in 1 .. Len(out[c]) :
                  out[c][i] = ErrorLine(Decode(result[c][1].std_err))

\* C4: every call prints exactly one line before it ends, on every path:
\* success, a status other than 0, and fault.
C4_ExactlyOneLine ==
    \A c \in Calls :
        /\ Len(out[c]) <= 1
        /\ Ended(c) => Len(out[c]) = 1

\* C5: a call whose script the host ran to its end (status 0) made one
\* submission, and within it: with the key of the application identifier
\* absent when the call began, the key exists with ShowInActionCenter = 1
\* and the call's notification was shown; with the key present, the
\* notification was shown and the registry is as it was.
C5_KeyCreatedThenShown ==
    \A c \in Calls :
        (pc[c] = "done" /\ GotZero(c)) =>
            LET key == RegKey(Script(c))
                before == regAtCall[c][1]
            IN  /\ count[c].run_ps = 1
                /\ Cardinality(ToastsOf(c)) = 1
                /\ IF key \notin before.keys
                   THEN /\ key \in reg.keys
                        /\ <<key, "ShowInActionCenter", 1>> \in reg.vals
                        /\ reg.keys = before.keys \cup {key}
                   ELSE reg = before

\* C5, its cases: a first call found the key absent and a second call found
\* it present, both run to their end by the host.
C5_Witness ==
    \E c, d \in Calls :
        /\ pc[c] = "done" /\ GotZero(c)
        /\ pc[d] = "done" /\ GotZero(d)
        /\ RegKey(Script(c)) \notin regAtCall[c][1].keys
        /\ RegKey(Script(d)) \in regAtCall[d][1].keys

\* Two calls one after the other, with the same arguments, both answered by
\* the host with status 0.
Twice(c, d) ==
    /\ c < d
    /\ pc[c] = "done" /\ pc[d] = "done"
    /\ args[c] = args[d]
    /\ GotZero(c) /\ GotZero(d)

\* C6: two calls in sequence with the same arguments to a healthy host both
\* return True and show one notification each, two in all; nothing carries
\* over: the second call builds its own session and script, and its script,
\* submission, printed line and result are those of the first, the ones its
\* arguments alone determine.
C6_TwiceIndependent ==
    \A c, d \in Calls :
        Twice(c, d) =>
            /\ ret[c] = <<TRUE>> /\ ret[d] = <<TRUE>>
            /\ Cardinality(ToastsOf(c)) = 1 /\ Cardinality(ToastsOf(d)) = 1
            /\ \A i \in ToastsOf(c), j \in ToastsOf(d) :
                  /\ i < j
                  /\ toasts[i].app = toasts[j].app
                  /\ toasts[i].xml = toasts[j].xml
            /\ count[d] = count[c] /\ count[d].session = 1
            /\ count[d].script = 1 /\ count[d].run_ps = 1
            /\ session[d] = <<Session(args[d].host, args[d].username, args[d].password)>>
            /\ ps_script[d] = <<Render(args[d].sender, args[d].message)>>
            /\ session[d] = session[c] /\ ps_script[d] = ps_script[c]
            /\ out[d] = out[c] /\ out[d] = <<SentLine(args[d].host)>>

\* C6, its case: the second of two such calls found the key the first one
\* created.
C6_Witness ==
    \E c, d \in Calls :
        /\ Twice(c, d)
        /\ RegKey(Script(c)) \notin regAtCall[c][1].keys
        /\ RegKey(Script(d)) \in regAtCall[d][1].keys

AssignSender(v) == "    $Sender = \"" \o v \o "\""
AssignMessage(v) == "    $Message = \"" \o v \o "\""
MarkupSender(v) == "        <text>" \o v \o "</text>"
MarkupMessage(v) ==
    "                <text hint-style=\"title\" hint-wrap=\"true\" >" \o v \o "</text>"

\* What call c prints and returns, by its own arguments, result and
\* exception alone.
OwnLine(c) ==
    IF GotZero(c) THEN SentLine(args[c].host)
    ELSE IF GotResult(c) /\ CanDecode(result[c][1].std_err)
         THEN ErrorLine(Decode(result[c][1].std_err))
    ELSE FailedLine(exc[c][1])

\* C8: in every interleaving of concurrent calls, the session, the script,
\* the returned boolean and the printed line of each call are determined by
\* its own arguments and its own result of the remote execution, never by
\* another call.
C8_CallsShareNothing ==
    \A c \in Calls :
        /\ session[c] # <<>> =>
              session[c] = <<Session(args[c].host, args[c].username, args[c].password)>>
        /\ Rendered(c) =>
              /\ Text(Script(c), 12) = AssignSender(args[c].sender)
              /\ Text(Script(c), 13) = AssignMessage(args[c].message)
        /\ pc[c] = "done" =>
              /\ out[c] = <<OwnLine(c)>>
              /\ ret[c] = <<GotZero(c)>>
        /\ pc[c] # "done" => out[c] = <<>> /\ ret[c] = <<>>

\* C8, its case: two calls with different arguments overlap, and the later
\* one has returned True while the earlier one still stands at line 57.
C8_Witness ==
    \E c, d \in Calls :
        /\ c < d
        /\ args[c].sender # args[d].sender /\ args[c].host # args[d].host
        /\ pc[c] = "L57"
        /\ pc[d] = "done" /\ ret[d] = <<TRUE>>

\* C9, as claimed: rendering puts the caller's sender and message verbatim
\* into two places of the rendered script, the assignments of lines 12-13 and
\* the markup document of lines 33-45.
C9_VerbatimInAssignmentAndMarkup ==
    \A c \in Calls :
        Rendered(c) =>
            /\ Text(Script(c), 12) = AssignSender(args[c].sender)
            /\ Text(Script(c), 13) = AssignMessage(args[c].message)
            /\ Text(Script(c), 36) = MarkupSender(args[c].sender)
            /\ Text(Script(c), 39) = MarkupMessage(args[c].message)

\* C9, amended: rendering puts the caller's sender and message verbatim into
\* one place each of the rendered script, the assignments of lines 12 and 13;
\* the markup document of the rendered script holds the references $Sender
\* and $Message, and no line but 12 and 13 depends on the sender or the
\* message.
C9_VerbatimInAssignmentOnly ==
    \A c \in Calls :
        Rendered(c) =>
            /\ Text(Script(c), 12) = AssignSender(args[c].sender)
            /\ Text(Script(c), 13) = AssignMessage(args[c].message)
            /\ Text(Script(c), 36) = MarkupSender("$Sender")
            /\ Text(Script(c), 39) = MarkupMessage("$Message")
            /\ \A i \in 1 .. Len(Template) :
                  i > 2 => Script(c)[i] = Render("", "")[i]

\* C9, its case: a script rendered from a sender with a quote in it and a
\* message with markup in it.
C9_Witness ==
    \E c \in Calls :
        /\ Rendered(c)
        /\ args[c].sender = "a\"b"
        /\ args[c].message = "<b>"

\* C10: in the rendered script, the application identifier the notification
\* is bound to when it is shown (the argument of CreateToastNotifier, line
\* 51) is the same string as the application identifier whose registry key
\* lines 27-29 test and create.
C10_OneApplicationIdentifier ==
    \A c \in Calls :
        Rendered(c) =>
            /\ PSToast(Script(c), c).app = PSVars(Script(c))["$AppId"]
            /\ RegKey(Script(c)) =
                  PSVars(Script(c))["$RegPath"] \o "\\" \o PSToast(Script(c), c).app

=============================================================================
